---- MODULE Spec2Model ----
(***************************************************************************)
(* Model of the flight-data cleaning scripts:                              *)
(*   scripts/clean_dataset.py         (operationtime, departureorarrival)  *)
(*   scripts/clean_airports_dates.py  (airports, origindate, duplicates)   *)
(*                                                                         *)
(* A text value is a sequence of one-character strings.  A cell of a table *)
(* is either NA (pandas NaN / NaT / None, all of which isna() reports) or  *)
(* Val(v).  A table is a sequence of rows, a row a record of cells.        *)
(***************************************************************************)
EXTENDS Integers, Sequences, FiniteSets, TLC

VARIABLES
    script,   \* which script is running, or "unit" for a single function call
    cols,     \* the column names of the header of the input file
    file,     \* the rows of the input csv file
    df,       \* the DataFrame the script works on
    pc,       \* the next statement block of the script
    trace,    \* the pipeline stages that have run so far, in order
    out,      \* what to_csv has written: <<>> before, <<table>> after
    fn,       \* unit call: the function called
    arg,      \* unit call: its argument
    ret,      \* unit call: its result
    log       \* unit call: the parse log made, or the tables returned

vars == <<script, cols, file, df, pc, trace, out, fn, arg, ret, log>>

(***************************************************************************)
(* Cells                                                                   *)
(***************************************************************************)
NA == [na |-> TRUE]
Val(v) == [na |-> FALSE, v |-> v]
IsNa(c) == c.na

(***************************************************************************)
(* Text                                                                    *)
(***************************************************************************)
LowerCase == <<"a","b","c","d","e","f","g","h","i","j","k","l","m",
               "n","o","p","q","r","s","t","u","v","w","x","y","z">>
UpperCase == <<"A","B","C","D","E","F","G","H","I","J","K","L","M",
               "N","O","P","Q","R","S","T","U","V","W","X","Y","Z">>
Whitespace == {" ", "\t"}

IsLowerChar(c) == \E i \in 1..Len(LowerCase) : LowerCase[i] = c

\* str.upper() on one character
UpperChar(c) ==
    IF IsLowerChar(c)
    THEN UpperCase[CHOOSE i \in 1..Len(LowerCase) : LowerCase[i] = c]
    ELSE c

\* str.upper()
Upper(s) == [i \in 1..Len(s) |-> UpperChar(s[i])]

\* str.lstrip(): drop characters from the left while they are whitespace
RECURSIVE LStrip(_)
LStrip(s) ==
    IF s # <<>> /\ Head(s) \in Whitespace THEN LStrip(Tail(s)) ELSE s

\* str.rstrip(): drop characters from the right while they are whitespace
RECURSIVE RStrip(_)
RStrip(s) ==
    IF s # <<>> /\ s[Len(s)] \in Whitespace
    THEN RStrip(SubSeq(s, 1, Len(s) - 1))
    ELSE s

\* str.strip()
Strip(s) == RStrip(LStrip(s))

\* Series.str.strip() / Series.str.upper(): NaN stays NaN
StrStrip(c) == IF IsNa(c) THEN NA ELSE Val(Strip(c.v))
StrUpper(c) == IF IsNa(c) THEN NA ELSE Val(Upper(c.v))

\* Series.astype(str): NaN becomes the text "nan"
AsTypeStr(c) == IF IsNa(c) THEN Val(<<"n","a","n">>) ELSE c

\* pd.read_csv on one text field: an empty field is read as NaN
ReadCsvField(s) == IF s = <<>> THEN NA ELSE Val(s)

(***************************************************************************)
(* Timestamps                                                              *)
(*                                                                         *)
(* The text of a timestamp is kept by what a parser can read of it:        *)
(*   fmt "iso"    ISO-8601 text, e.g. 2024-12-05T14:30:00+01:00            *)
(*   fmt "other"  text only the general parser reads, e.g. Dec 5 2024 2PM  *)
(*   fmt "bad"    text no parser reads                                     *)
(*   fmt "empty"  the empty string                                         *)
(* local is the wall-clock time written in the text, in minutes since      *)
(* 1970-01-01T00:00, and off the UTC offset written in it, in minutes.     *)
(* A parsed instant is a number of minutes since 1970-01-01T00:00Z.        *)
(***************************************************************************)
TimeText(f, l, o) == [fmt |-> f, local |-> l, off |-> o]
EmptyText == TimeText("empty", 0, 0)
BadText == TimeText("bad", 0, 0)

\* pd.read_csv on one timestamp field
ReadCsvTime(t) == IF t.fmt = "empty" THEN NA ELSE Val(t)

\* the offset of the text not applied
ToDatetimeISOLocal(c) ==
    IF IsNa(c) \/ c.v.fmt = "empty" THEN [raised |-> FALSE, value |-> NA]
    ELSE IF c.v.fmt = "iso"
         THEN [raised |-> FALSE, value |-> Val(c.v.local)]
         ELSE [raised |-> TRUE, value |-> NA]

\* pd.to_datetime(x, utc=True, format='ISO8601') on a scalar: null and the
\* empty string give NaT without raising, ISO text gives the UTC instant,
\* any other text raises.
ToDatetimeISO(c) ==
    IF IsNa(c) \/ c.v.fmt = "empty" THEN [raised |-> FALSE, value |-> NA]
    ELSE IF c.v.fmt = "iso"
         THEN [raised |-> FALSE, value |-> Val(c.v.local - c.v.off)]
         ELSE [raised |-> TRUE, value |-> NA]

\* pd.to_datetime(x, utc=True) on a scalar: the general parser
ToDatetimeGeneral(c) ==
    IF IsNa(c) \/ c.v.fmt = "empty" THEN [raised |-> FALSE, value |-> NA]
    ELSE IF c.v.fmt \in {"iso", "other"}
         THEN [raised |-> FALSE, value |-> Val(c.v.local - c.v.off)]
         ELSE [raised |-> TRUE, value |-> NA]

\* parse_datetime_safe
ParseDatetimeSafe(c) ==
    LET iso == ToDatetimeISO(c)
        gen == ToDatetimeGeneral(c)
    IN  IF ~iso.raised THEN iso.value
        ELSE IF ~gen.raised THEN gen.value
        ELSE NA

(***************************************************************************)
(* Calendar fields of an instant (Series.dt), proleptic Gregorian, UTC     *)
(***************************************************************************)
WeekdayNames == <<"Monday", "Tuesday", "Wednesday", "Thursday", "Friday",
                  "Saturday", "Sunday">>
MonthNames == <<"January", "February", "March", "April", "May", "June",
                "July", "August", "September", "October", "November",
                "December">>

DayNumber(t) == t \div 1440

\* year, month, day of a day number counted from 1970-01-01
CivilFromDays(days) ==
    LET z   == days + 719468
        era == z \div 146097
        doe == z - era * 146097
        yoe == (doe - doe \div 1460 + doe \div 36524 - doe \div 146096) \div 365
        doy == doe - (365 * yoe + yoe \div 4 - yoe \div 100)
        mp  == (5 * doy + 2) \div 153
        d   == doy - (153 * mp + 2) \div 5 + 1
        m   == IF mp < 10 THEN mp + 3 ELSE mp - 9
        y   == yoe + era * 400 + (IF m <= 2 THEN 1 ELSE 0)
    IN  [year |-> y, month |-> m, day |-> d]

\* hour 0 for NaT
DtHourOfNaT(c) == IF IsNa(c) THEN Val(0) ELSE Val((c.v \div 60) % 24)

\* the weekday counted as if 1970-01-01 were a Monday
DtDayNameFromMonday(c) ==
    IF IsNa(c) THEN NA ELSE Val(WeekdayNames[(DayNumber(c.v) % 7) + 1])

\* .dt.hour, .dt.day_name(), .dt.month_name(), .dt.date: NaT gives a null
DtHour(c) == IF IsNa(c) THEN NA ELSE Val((c.v \div 60) % 24)
DtDayName(c) ==
    IF IsNa(c) THEN NA ELSE Val(WeekdayNames[((DayNumber(c.v) + 3) % 7) + 1])
DtMonthName(c) ==
    IF IsNa(c) THEN NA ELSE Val(MonthNames[CivilFromDays(DayNumber(c.v)).month])
DtDate(c) == IF IsNa(c) THEN NA ELSE Val(CivilFromDays(DayNumber(c.v)))

(***************************************************************************)
(* Categorical validation of departureorarrival                            *)
(***************************************************************************)
ARRIVAL == <<"A","R","R","I","V","A","L">>
DEPARTURE == <<"D","E","P","A","R","T","U","R","E">>
AllowList == {ARRIVAL, DEPARTURE}

\* the value kept whatever it is
KeepAnything(c) == c

\* lambda x: x if x in ['ARRIVAL', 'DEPARTURE'] else None
KeepAllowed(c) == IF ~IsNa(c) /\ c.v \in AllowList THEN c ELSE NA

\* the whole cleaning of one departureorarrival value
CleanDepartureOrArrival(c) == KeepAllowed(StrUpper(StrStrip(AsTypeStr(c))))

(***************************************************************************)
(* Bounds and inputs                                                       *)
(***************************************************************************)
MaxRows == 2      \* longest input table enumerated in full
ExpectedRows == 5856

SeqsUpTo(S, n) == UNION {[1..k -> S] : k \in 0..n}

\* wall-clock times written in the input: 2024-12-05T14:30, 2024-12-31T23:30
SampleTimes == {20062 * 1440 + 870, 20088 * 1440 + 1410}
SampleOffsets == {0, 60, -120}

DsCols == {"flightnumber", "operationtime", "departureorarrival"}
OperationTimeFields ==
    {TimeText("iso", 20062 * 1440 + 870, 0), TimeText("iso", 20062 * 1440 + 870, 60),
     TimeText("other", 20088 * 1440 + 1410, -120), BadText, EmptyText}
DepartureOrArrivalFields ==
    {<<" "," ","a","r","r","i","v","a","l"," ">>,
     <<"U","N","K","N","O","W","N">>, <<>>}
DsRows ==
    [flightnumber : {1, 2}, operationtime : OperationTimeFields,
     departureorarrival : DepartureOrArrivalFields]
DsFiller ==
    [flightnumber |-> 0, operationtime |-> TimeText("iso", 20062 * 1440 + 870, 0),
     departureorarrival |-> DEPARTURE]

\* a table of ExpectedRows rows: a varied head, then the same row repeated
Padded(head) ==
    [i \in 1..ExpectedRows |-> IF i <= Len(head) THEN head[i] ELSE DsFiller]

\* every table of at most MaxRows rows, and the tables of ExpectedRows rows
\* whose first row, if any, is varied
DsSmallFiles == SeqsUpTo(DsRows, MaxRows)
DsLargeFiles == {Padded(h) : h \in SeqsUpTo(DsRows, 1)}

(***************************************************************************)
(* scripts/clean_dataset.py                                                *)
(***************************************************************************)
Stage(name) == trace' = Append(trace, name)
Goto(label) == pc' = label
Halt == /\ pc' = "error"
        /\ UNCHANGED <<df, trace, out>>
Fixed == UNCHANGED <<script, cols, file, fn, arg, ret, log>>

\* pd.read_csv of flights_clean.csv
ReadCsvDataset(f) ==
    [i \in 1..Len(f) |->
        [flightnumber |-> Val(f[i].flightnumber),
         operationtime |-> ReadCsvTime(f[i].operationtime),
         departureorarrival |-> ReadCsvField(f[i].departureorarrival)]]

\* lines 12-21: load, then print operationtime and departureorarrival; a
\* column that is not in the file raises KeyError
DsLoad ==
    /\ script = "clean_dataset" /\ pc = "load"
    /\ IF {"operationtime", "departureorarrival"} \subseteq cols
       THEN /\ df' = ReadCsvDataset(file)
            /\ Stage("Loader")
            /\ Goto("parse")
            /\ UNCHANGED out
       ELSE Halt
    /\ Fixed

\* df['operationtime'].apply(parse_datetime_safe)
ApplyParse(t) ==
    [i \in 1..Len(t) |->
        [t[i] EXCEPT !.operationtime = ParseDatetimeSafe(t[i].operationtime)]]

\* lines 44-52
DsParse ==
    /\ script = "clean_dataset" /\ pc = "parse"
    /\ df' = ApplyParse(df)
    /\ Stage("Parser")
    /\ Goto("derive")
    /\ UNCHANGED out
    /\ Fixed

\* Series.apply on an empty Series returns it as it is (dtype object); any
\* other result here holds only UTC instants and NaT (dtype datetime64)
IsDatetimeDtype(t) == Len(t) > 0

\* the four derived columns
Derive(t) ==
    [i \in 1..Len(t) |->
        [flightnumber |-> t[i].flightnumber,
         operationtime |-> t[i].operationtime,
         departureorarrival |-> t[i].departureorarrival,
         hour |-> DtHour(t[i].operationtime),
         weekday |-> DtDayName(t[i].operationtime),
         month |-> DtMonthName(t[i].operationtime),
         date |-> DtDate(t[i].operationtime)]]

\* lines 61-80: the .dt accessor raises AttributeError on a column that is
\* not datetime
DsDerive ==
    /\ script = "clean_dataset" /\ pc = "derive"
    /\ IF IsDatetimeDtype(df)
       THEN /\ df' = Derive(df)
            /\ Stage("Deriver")
            /\ Goto("normalize")
            /\ UNCHANGED out
       ELSE Halt
    /\ Fixed

\* astype(str).str.strip(), then .str.upper()
NormalizeCategory(t) ==
    [i \in 1..Len(t) |->
        [t[i] EXCEPT !.departureorarrival =
            StrUpper(StrStrip(AsTypeStr(t[i].departureorarrival)))]]

\* lines 90-100
DsNormalize ==
    /\ script = "clean_dataset" /\ pc = "normalize"
    /\ df' = NormalizeCategory(df)
    /\ Stage("Normalizer")
    /\ Goto("allowlist")
    /\ UNCHANGED out
    /\ Fixed

\* the rows outside the allow-list dropped instead of their value nulled
ApplyAllowListDropping(t) ==
    SelectSeq(t, LAMBDA r : ~IsNa(KeepAllowed(r.departureorarrival)))

\* apply(lambda x: x if x in ['ARRIVAL', 'DEPARTURE'] else None)
ApplyAllowList(t) ==
    [i \in 1..Len(t) |->
        [t[i] EXCEPT !.departureorarrival = KeepAllowed(t[i].departureorarrival)]]

\* the allow-list stage handing back to the normalization
DsAllowListAgain ==
    /\ script = "clean_dataset" /\ pc = "allowlist"
    /\ df' = ApplyAllowList(df)
    /\ Stage("Validator")
    /\ Goto("normalize")
    /\ UNCHANGED out
    /\ Fixed

\* lines 102-112
DsAllowList ==
    /\ script = "clean_dataset" /\ pc = "allowlist"
    /\ df' = ApplyAllowList(df)
    /\ Stage("Validator")
    /\ Goto("validation")
    /\ UNCHANGED out
    /\ Fixed

\* the asserts compiled away
ValidationSkipped(t) == TRUE

\* the three asserts of STEP 4
RowCountOk(t) == Len(t) = ExpectedRows
CategoryOk(t) ==
    \A i \in 1..Len(t) :
        IsNa(t[i].departureorarrival) \/ t[i].departureorarrival.v \in AllowList
ValidationPasses(t) == RowCountOk(t) /\ IsDatetimeDtype(t) /\ CategoryOk(t)

\* lines 121-135: a failed assert raises AssertionError
DsValidation ==
    /\ script = "clean_dataset" /\ pc = "validation"
    /\ IF ValidationPasses(df)
       THEN /\ Goto("save")
            /\ UNCHANGED <<df, trace, out>>
       ELSE Halt
    /\ Fixed

\* lines 145-147: df.to_csv
DsSave ==
    /\ script = "clean_dataset" /\ pc = "save"
    /\ out' = <<df>>
    /\ Stage("Writer")
    /\ Goto("done")
    /\ UNCHANGED df
    /\ Fixed

InitDataset ==
    /\ script = "clean_dataset"
    /\ \/ cols = DsCols /\ file \in DsSmallFiles
       \/ cols = DsCols /\ file \in DsLargeFiles
       \/ /\ cols \in {DsCols \ {c} : c \in {"operationtime", "departureorarrival"}}
          /\ file \in SeqsUpTo(DsRows, 1)
    /\ df = <<>> /\ pc = "load" /\ trace = <<>> /\ out = <<>>
    /\ fn = "" /\ arg = NA /\ ret = NA /\ log = <<>>

NextDataset ==
    \/ DsLoad \/ DsParse \/ DsDerive \/ DsNormalize \/ DsAllowList
    \/ DsValidation \/ DsSave

SpecDataset == InitDataset /\ [][NextDataset]_vars

(***************************************************************************)
(* scripts/clean_airports_dates.py                                         *)
(*                                                                         *)
(* The text of an origindate is kept as its format and the day it names    *)
(* (a day number counted from 1970-01-01):                                 *)
(*   fmt "ymd"    2024-12-05        fmt "bad"    text that is no date      *)
(*   fmt "mdy"    12/05/2024        fmt "empty"  the empty string          *)
(***************************************************************************)
DateText(f, d) == [fmt |-> f, day |-> d]

AirCols == {"airline", "departureairport", "arrivalairport", "origindate"}
KRECHBA == <<"K","R","E","C","H","B","A">>
DepartureFields ==
    {<<" ","a","l","g">>, <<"A","L","G">>, <<"k","r","e","c","h","b","a">>, <<>>}
ArrivalFields == {<<"o","r","y"," ">>, <<>>}
OriginDateFields ==
    {DateText("ymd", 20062), DateText("mdy", 20062), DateText("bad", 0),
     DateText("empty", 0)}
AirRows ==
    [airline : {<<"A","H">>}, departureairport : DepartureFields,
     arrivalairport : ArrivalFields, origindate : OriginDateFields]
AirFiles == SeqsUpTo(AirRows, MaxRows)

\* pd.read_csv of flights_clean.csv
ReadCsvAirports(f) ==
    [i \in 1..Len(f) |->
        [airline |-> ReadCsvField(f[i].airline),
         departureairport |-> ReadCsvField(f[i].departureairport),
         arrivalairport |-> ReadCsvField(f[i].arrivalairport),
         origindate |-> IF f[i].origindate.fmt = "empty" THEN NA
                        ELSE Val(f[i].origindate)]]

Column(t, c) == [i \in 1..Len(t) |-> t[i][c]]
AnyNa(col) == \E i \in 1..Len(col) : IsNa(col[i])
AllNa(col) == \A i \in 1..Len(col) : IsNa(col[i])

\* lines 11-24: load, then print the unique values of the three columns; a
\* column that is not in the file raises KeyError
AirLoad ==
    /\ script = "clean_airports_dates" /\ pc = "load"
    /\ IF {"departureairport", "arrivalairport", "origindate"} \subseteq cols
       THEN /\ df' = ReadCsvAirports(file)
            /\ Stage("Loader")
            /\ Goto("departure")
            /\ UNCHANGED out
       ELSE Halt
    /\ Fixed

\* The checks made before an airport column is cleaned (lines 31-33, 61-62):
\* whether they can raise.  A column read with no text at all is a float
\* column, and .str raises AttributeError on it.  On a column of text with
\* NaN among it, ~ of .str.isupper() raises TypeError where the column is an
\* object column and does not where it is a string column.
AirportCheckRaises(col) ==
    IF Len(col) > 0 /\ AllNa(col) THEN {TRUE}
    ELSE IF AnyNa(col) THEN {TRUE, FALSE}
    ELSE {FALSE}

\* .str.upper() without .str.strip()
NormalizeAirportNoStrip(c) == StrUpper(c)

\* df[c].str.strip().str.upper()
NormalizeAirport(c) == StrUpper(StrStrip(c))
NormalizeColumn(t, c) ==
    [i \in 1..Len(t) |-> [t[i] EXCEPT ![c] = NormalizeAirport(t[i][c])]]

\* lines 44-49: the KRECHBA records are printed with their airline
KrechbaRaises(t) ==
    /\ \E i \in 1..Len(t) : t[i].departureairport = Val(KRECHBA)
    /\ "airline" \notin cols

\* lines 31-53
AirDeparture ==
    /\ script = "clean_airports_dates" /\ pc = "departure"
    /\ \E raises \in AirportCheckRaises(Column(df, "departureairport")) :
        LET cleaned == NormalizeColumn(df, "departureairport")
        IN  IF raises THEN Halt
            ELSE /\ df' = cleaned
                 /\ Stage("Normalizer")
                 /\ IF KrechbaRaises(cleaned) THEN pc' = "error"
                    ELSE Goto("arrival")
                 /\ UNCHANGED out
    /\ Fixed

\* lines 61-80
AirArrival ==
    /\ script = "clean_airports_dates" /\ pc = "arrival"
    /\ \E raises \in AirportCheckRaises(Column(df, "arrivalairport")) :
        IF raises THEN Halt
        ELSE /\ df' = NormalizeColumn(df, "arrivalairport")
             /\ Stage("Normalizer")
             /\ Goto("origindate")
             /\ UNCHANGED out
    /\ Fixed

\* line 87: min() and max() of the column as read.  On an object column of
\* text with NaN among it the comparison of text with a float raises
\* TypeError; on a string column it does not.
DateRangeRaises(col) ==
    IF AnyNa(col) /\ ~AllNa(col) THEN {TRUE, FALSE} ELSE {FALSE}

Formats(col) == {col[i].v.fmt : i \in {j \in 1..Len(col) : ~IsNa(col[j])}}

\* pd.to_datetime(df['origindate']), line 91: text that is no date raises
\* ValueError.  With texts of several formats, the format is taken from the
\* first text and a text of another format raises, or each text is parsed on
\* its own, depending on the pandas in use.
ToDatetimeRaises(col) ==
    IF "bad" \in Formats(col) THEN {TRUE}
    ELSE IF Cardinality(Formats(col)) > 1 THEN {TRUE, FALSE}
    ELSE {FALSE}

\* pd.to_datetime on one value that parses: the day, NaT for NaN
ToDatetimeDate(c) == IF IsNa(c) THEN NA ELSE Val(c.v.day)

\* .dt.strftime('%Y-%m-%d') on one value: NaT gives NaN
Strftime(c) == IF IsNa(c) THEN NA ELSE Val(DateText("ymd", c.v))

StandardizeDates(t) ==
    [i \in 1..Len(t) |->
        [t[i] EXCEPT !.origindate = Strftime(ToDatetimeDate(t[i].origindate))]]

\* lines 86-107: an exception of the try block is caught, reported, and the
\* function returns
AirOriginDate ==
    /\ script = "clean_airports_dates" /\ pc = "origindate"
    /\ \E rangeRaises \in DateRangeRaises(Column(df, "origindate")),
          parseRaises \in ToDatetimeRaises(Column(df, "origindate")) :
        IF rangeRaises THEN Halt
        ELSE IF parseRaises
        THEN /\ pc' = "returned"
             /\ Stage("Parser")
             /\ UNCHANGED <<df, out>>
        ELSE /\ df' = StandardizeDates(df)
             /\ Stage("Parser")
             /\ Goto("duplicates")
             /\ UNCHANGED out
    /\ Fixed

\* DataFrame.duplicated(): a row is a duplicate if an earlier row is equal to
\* it in every column (NaN equal to NaN)
Duplicated(t, i) == \E j \in 1..(i - 1) : t[j] = t[i]

\* a row removed while the rows are walked, the row after it not looked at
RECURSIVE DropFromSkipping(_, _)
DropFromSkipping(t, i) ==
    IF i > Len(t) THEN <<>>
    ELSE IF Duplicated(t, i)
         THEN (IF i < Len(t) THEN <<t[i + 1]>> ELSE <<>>)
              \o DropFromSkipping(t, i + 2)
         ELSE <<t[i]>> \o DropFromSkipping(t, i + 1)

\* keep='last' in place of keep='first'
RECURSIVE KeepLastFrom(_, _)
KeepLastFrom(t, i) ==
    IF i > Len(t) THEN <<>>
    ELSE (IF \E j \in (i + 1)..Len(t) : t[j] = t[i] THEN <<>> ELSE <<t[i]>>)
         \o KeepLastFrom(t, i + 1)
DropDuplicatesKeepLast(t) == KeepLastFrom(t, 1)

\* DataFrame.drop_duplicates(keep='first')
RECURSIVE DropFrom(_, _)
DropFrom(t, i) ==
    IF i > Len(t) THEN <<>>
    ELSE (IF Duplicated(t, i) THEN <<>> ELSE <<t[i]>>) \o DropFrom(t, i + 1)
DropDuplicates(t) == DropFrom(t, 1)

\* lines 123-134: groupby leaves out the rows with a NaN in any column; with
\* no row left, int(dup_stats['max']) raises ValueError; with a row left,
\* row['airline'] raises KeyError if the file has no airline column
IsComplete(r) == \A c \in AirCols : ~IsNa(r[c])
DuplicateStatsRaise(t) ==
    \/ ~\E i \in 1..Len(t) : IsComplete(t[i])
    \/ "airline" \notin cols

\* the rows dropped being those that repeat an earlier row of the file as read
RECURSIVE DropRepeatedIn(_, _, _)
DropRepeatedIn(t, raw, i) ==
    IF i > Len(t) THEN <<>>
    ELSE (IF Duplicated(raw, i) THEN <<>> ELSE <<t[i]>>)
         \o DropRepeatedIn(t, raw, i + 1)
AirDuplicatesOfRaw ==
    /\ script = "clean_airports_dates" /\ pc = "duplicates"
    /\ IF DuplicateStatsRaise(df) THEN Halt
       ELSE /\ df' = DropRepeatedIn(df, ReadCsvAirports(file), 1)
            /\ Stage("Deduplicator")
            /\ Goto("save")
            /\ UNCHANGED out
    /\ Fixed

\* lines 113-142
AirDuplicates ==
    /\ script = "clean_airports_dates" /\ pc = "duplicates"
    /\ IF DuplicateStatsRaise(df) THEN Halt
       ELSE /\ df' = DropDuplicates(df)
            /\ Stage("Deduplicator")
            /\ Goto("save")
            /\ UNCHANGED out
    /\ Fixed

\* lines 147-168: df.to_csv
AirSave ==
    /\ script = "clean_airports_dates" /\ pc = "save"
    /\ out' = <<df>>
    /\ Stage("Writer")
    /\ Goto("done")
    /\ UNCHANGED df
    /\ Fixed

InitAirports ==
    /\ script = "clean_airports_dates"
    /\ \/ cols = AirCols /\ file \in AirFiles
       \/ /\ cols \in {AirCols \ {c} : c \in AirCols}
          /\ file \in SeqsUpTo(AirRows, 1)
    /\ df = <<>> /\ pc = "load" /\ trace = <<>> /\ out = <<>>
    /\ fn = "" /\ arg = NA /\ ret = NA /\ log = <<>>

NextAirports ==
    \/ AirLoad \/ AirDeparture \/ AirArrival \/ AirOriginDate
    \/ AirDuplicates \/ AirSave

SpecAirports == InitAirports /\ [][NextAirports]_vars

(***************************************************************************)
(* Single calls of the functions the scripts are made of                   *)
(***************************************************************************)
MaxStrLen == 3    \* longest text enumerated in full
MaxTable == 5     \* longest table given to drop_duplicates

Alphabet == {" ", "\t", "a", "A", "1"}
Texts ==
    SeqsUpTo(Alphabet, MaxStrLen)
    \cup DepartureFields \cup ArrivalFields \cup DepartureOrArrivalFields
    \cup {KRECHBA, ARRIVAL, DEPARTURE, <<"n","a","n">>,
          <<"D","e","p","a","r","t","u","r","e","\t">>,
          <<"A","R","R","I","V","A","L","S">>, <<"A","R","R"," ","I","V","A","L">>}
TextArgs == {NA} \cup {Val(s) : s \in Texts}

TimeArgs ==
    {NA, Val(EmptyText), Val(BadText)}
    \cup {Val(TimeText(f, l, o)) :
            f \in {"iso", "other"}, l \in SampleTimes, o \in SampleOffsets}

\* three cleaned rows, one of them with a NaN
SampleRows ==
    {[airline |-> Val(<<"A","H">>), departureairport |-> Val(<<"A","L","G">>),
      arrivalairport |-> Val(<<"O","R","Y">>),
      origindate |-> Val(DateText("ymd", 20062))],
     [airline |-> Val(<<"A","H">>), departureairport |-> Val(KRECHBA),
      arrivalairport |-> Val(<<"O","R","Y">>),
      origindate |-> Val(DateText("ymd", 20062))],
     [airline |-> Val(<<"A","H">>), departureairport |-> Val(<<"A","L","G">>),
      arrivalairport |-> NA, origindate |-> Val(DateText("ymd", 20062))]}
TableArgs == SeqsUpTo(SampleRows, MaxTable)

Idle == UNCHANGED <<script, cols, file, df, trace, out, fn, arg>>

\* parse_datetime_safe, lines 33-34: the ISO-8601 attempt
UnitParseISO ==
    /\ script = "unit" /\ fn = "parse_datetime_safe" /\ pc = "call"
    /\ LET r == ToDatetimeISO(arg)
       IN  /\ log' = Append(log, [parser |-> "ISO8601", raised |-> r.raised])
           /\ IF r.raised THEN pc' = "except" /\ UNCHANGED ret
              ELSE pc' = "returned" /\ ret' = r.value
    /\ Idle

\* parse_datetime_safe, lines 35-38: the general attempt
UnitParseGeneral ==
    /\ script = "unit" /\ fn = "parse_datetime_safe" /\ pc = "except"
    /\ LET r == ToDatetimeGeneral(arg)
       IN  /\ log' = Append(log, [parser |-> "general", raised |-> r.raised])
           /\ IF r.raised THEN pc' = "except_except" /\ UNCHANGED ret
              ELSE pc' = "returned" /\ ret' = r.value
    /\ Idle

\* parse_datetime_safe, lines 39-41
UnitParseNaT ==
    /\ script = "unit" /\ fn = "parse_datetime_safe" /\ pc = "except_except"
    /\ ret' = NA
    /\ pc' = "returned"
    /\ UNCHANGED log
    /\ Idle

\* df.drop_duplicates(keep='first')
UnitDropDuplicates ==
    /\ script = "unit" /\ fn = "drop_duplicates" /\ pc = "call"
    /\ ret' = DropDuplicates(arg)
    /\ log' = <<DropDuplicates(arg)>>
    /\ pc' = "returned"
    /\ Idle

\* drop_duplicates applied to its own result
UnitDropAgain ==
    /\ script = "unit" /\ fn = "drop_duplicates" /\ pc = "returned"
    /\ Len(log) = 1
    /\ ret' = DropDuplicates(ret)
    /\ log' = Append(log, DropDuplicates(ret))
    /\ pc' = "returned"
    /\ Idle

\* one value through .str.strip().str.upper()
UnitNormalizeAirport ==
    /\ script = "unit" /\ fn = "normalize_airport" /\ pc = "call"
    /\ ret' = NormalizeAirport(arg)
    /\ pc' = "returned"
    /\ UNCHANGED log
    /\ Idle

\* one value through the cleaning of departureorarrival
UnitCleanCategory ==
    /\ script = "unit" /\ fn = "clean_departureorarrival" /\ pc = "call"
    /\ ret' = CleanDepartureOrArrival(arg)
    /\ pc' = "returned"
    /\ UNCHANGED log
    /\ Idle

InitUnit ==
    /\ script = "unit"
    /\ \/ fn = "parse_datetime_safe" /\ arg \in TimeArgs
       \/ fn = "drop_duplicates" /\ arg \in TableArgs
       \/ fn \in {"normalize_airport", "clean_departureorarrival"} /\ arg \in TextArgs
    /\ cols = {} /\ file = <<>> /\ df = <<>> /\ trace = <<>> /\ out = <<>>
    /\ pc = "call" /\ ret = NA /\ log = <<>>

NextUnit ==
    \/ UnitParseISO \/ UnitParseGeneral \/ UnitParseNaT
    \/ UnitDropDuplicates \/ UnitDropAgain
    \/ UnitNormalizeAirport \/ UnitCleanCategory

SpecUnit == InitUnit /\ [][NextUnit]_vars

(***************************************************************************)
(* The scripts and the single calls together                               *)
(***************************************************************************)
Init == InitDataset \/ InitAirports \/ InitUnit
Next == NextDataset \/ NextAirports \/ NextUnit
Spec == Init /\ [][Next]_vars

(***************************************************************************)
(* Properties                                                              *)
(***************************************************************************)
Returned(f) == script = "unit" /\ fn = f /\ pc = "returned"

\* the rows of t that no earlier row of t equals
FirstOccurrences(t) == {i \in 1..Len(t) : \A j \in 1..(i - 1) : t[j] # t[i]}
\* the k-th smallest member of a set of numbers
NthOf(S, k) == CHOOSE i \in S : Cardinality({j \in S : j <= i}) = k
NoTwoEqual(t) == \A a, b \in 1..Len(t) : a # b => t[a] # t[b]

\* C1: drop_duplicates returns exactly the first occurrences of the rows of
\* its input, in their original order: the k-th row returned is the k-th row of
\* the input that no earlier row equals, and no two returned rows are equal.
C1_KeepsFirstOccurrences ==
    (Returned("drop_duplicates") /\ Len(log) = 1) =>
        /\ Len(ret) = Cardinality(FirstOccurrences(arg))
        /\ \A k \in 1..Len(ret) : ret[k] = arg[NthOf(FirstOccurrences(arg), k)]
        /\ NoTwoEqual(ret)

\* C1 witness: rows [A, B, A, C, B] have given [A, B, C]
C1_Witness ==
    /\ Returned("drop_duplicates") /\ Len(log) = 1
    /\ \E a, b, c \in SampleRows :
        /\ a # b /\ a # c /\ b # c
        /\ arg = <<a, b, a, c, b>>
        /\ ret = <<a, b, c>>

\* C10: drop_duplicates applied to its own result returns that result, the
\* same rows in the same order.
C10_DedupIdempotent ==
    (Returned("drop_duplicates") /\ Len(log) = 2) => log[2] = log[1]

\* C10 witness: a second application to a table the first one shortened
C10_Witness ==
    /\ Returned("drop_duplicates") /\ Len(log) = 2
    /\ Len(log[1]) < Len(arg)
    /\ Len(log[1]) > 1

Ended == pc \in {"done", "error", "returned"}
Ran(stage) == \E k \in 1..Len(trace) : trace[k] = stage
Written == out # <<>>

\* C2: a value that does not parse is made absent and the run goes on to the
\* writer: a run of clean_airports_and_dates on a file with every column, no
\* empty field, one date format and a text that is no date has, when it has
\* ended, written its table; a run of clean_dataset.py on a file with every
\* column and the expected number of rows has, when it has ended, written all
\* the rows of the file.
OnlyMalformedDates(f) ==
    /\ \E i \in 1..Len(f) : f[i].origindate.fmt = "bad"
    /\ \A i \in 1..Len(f) :
        /\ f[i].origindate.fmt \in {"bad", "ymd"}
        /\ f[i].departureairport # <<>>
        /\ f[i].arrivalairport # <<>>
C2_ParseFailureNeverAborts ==
    /\ (script = "clean_airports_dates" /\ cols = AirCols
            /\ OnlyMalformedDates(file) /\ Ended)
        => Written
    /\ (script = "clean_dataset" /\ cols = DsCols
            /\ Len(file) = ExpectedRows /\ Ended)
        => (Written /\ Len(out[1]) = Len(file))

\* C3 as claimed: parse_datetime_safe ends by returning, tries the ISO-8601
\* parse first and the general parse only after the ISO-8601 parse raised,
\* returns NaT only if both parses raised, and returns either the UTC instant
\* of the text or NaT.
ParseSteps == {"call", "except", "except_except", "returned"}
BothParsesRaised == Len(log) = 2 /\ log[1].raised /\ log[2].raised
NullOrEmpty(c) == IsNa(c) \/ c.v.fmt = "empty"
ParseOrder ==
    /\ pc \in ParseSteps
    /\ pc # "returned" => ENABLED NextUnit
    /\ Len(log) <= 2
    /\ Len(log) >= 1 => log[1].parser = "ISO8601"
    /\ Len(log) >= 2 => (log[1].raised /\ log[2].parser = "general")
    /\ (pc = "returned" /\ ~IsNa(ret)) => ret.v = arg.v.local - arg.v.off
    /\ pc = "returned" => ret = ParseDatetimeSafe(arg)
C3_NaTOnlyIfBothFailed ==
    (script = "unit" /\ fn = "parse_datetime_safe") =>
        /\ ParseOrder
        /\ (pc = "returned" /\ IsNa(ret)) => BothParsesRaised

\* C3 as amended: the same, except that NaT is returned if both parses raised
\* or if the input is null or the empty string, for which the ISO-8601 parse
\* itself returns NaT without raising and the general parse is not tried.
C3_ParseRecovers ==
    (script = "unit" /\ fn = "parse_datetime_safe") =>
        /\ ParseOrder
        /\ (pc = "returned" /\ IsNa(ret)) => (BothParsesRaised \/ NullOrEmpty(arg))
        /\ (pc = "returned" /\ NullOrEmpty(arg)) => (IsNa(ret) /\ Len(log) = 1)

\* C3 witness: a text no parser reads has come back as NaT after two attempts
C3_Witness ==
    /\ Returned("parse_datetime_safe")
    /\ arg = Val(BadText) /\ IsNa(ret) /\ BothParsesRaised

\* u is s with every lower-case letter replaced by its upper-case letter
IsUpperOf(u, s) ==
    /\ Len(u) = Len(s)
    /\ \A k \in 1..Len(s) :
        \/ \E n \in 1..26 : s[k] = LowerCase[n] /\ u[k] = UpperCase[n]
        \/ (\A n \in 1..26 : s[k] # LowerCase[n]) /\ u[k] = s[k]
\* u is raw without its leading and trailing whitespace, upper-cased
IsTrimmedUpperOf(u, raw) ==
    \E i \in 0..Len(raw) : \E j \in i..Len(raw) :
        /\ \A k \in 1..i : raw[k] \in Whitespace
        /\ \A k \in (j + 1)..Len(raw) : raw[k] \in Whitespace
        /\ i < j => (raw[i + 1] \notin Whitespace /\ raw[j] \notin Whitespace)
        /\ IsUpperOf(u, SubSeq(raw, i + 1, j))
\* no surrounding whitespace and no lower-case letter
IsCleanText(s) ==
    /\ s # <<>> => (s[1] \notin Whitespace /\ s[Len(s)] \notin Whitespace)
    /\ \A k \in 1..Len(s) : \A n \in 1..26 : s[k] # LowerCase[n]

\* what the specification says a raw departureorarrival value becomes
ExpectedCategory(c) ==
    IF ~IsNa(c) /\ \E v \in AllowList : IsTrimmedUpperOf(v, c.v)
    THEN Val(CHOOSE v \in AllowList : IsTrimmedUpperOf(v, c.v))
    ELSE NA

\* C4: the cleaning of departureorarrival maps a value to its trimmed,
\* upper-cased form if that is ARRIVAL or DEPARTURE and to absent otherwise
\* (absent included), and once the allow-list stage of clean_dataset.py has
\* run every value of the column is ARRIVAL, DEPARTURE or absent, the one its
\* field in the file is mapped to.
C4_CategoryValidated ==
    /\ Returned("clean_departureorarrival") =>
        /\ ret = ExpectedCategory(arg)
        /\ ret \in {NA, Val(ARRIVAL), Val(DEPARTURE)}
    /\ (script = "clean_dataset" /\ Ran("Validator")) =>
        /\ Len(df) = Len(file)
        /\ \A p \in {<<file[i].departureorarrival, df[i].departureorarrival>> :
                        i \in 1..Len(df)} :
            /\ p[2] \in {NA, Val(ARRIVAL), Val(DEPARTURE)}
            /\ p[2] = ExpectedCategory(ReadCsvField(p[1]))

\* C4 witness: the allow-list stage has run on a table whose "  arrival " has
\* become ARRIVAL and whose UNKNOWN has become absent
C4_Witness ==
    /\ script = "clean_dataset" /\ Ran("Validator") /\ Len(df) = 2
    /\ file[1].departureorarrival = <<" "," ","a","r","r","i","v","a","l"," ">>
    /\ df[1].departureorarrival = Val(ARRIVAL)
    /\ file[2].departureorarrival = <<"U","N","K","N","O","W","N">>
    /\ df[2].departureorarrival = NA

\* C5: once the derived columns exist, a record whose operationtime is absent
\* has hour, weekday, month and date all absent, in the DataFrame and in the
\* table that is written.
NoPartialDerivation(t) ==
    \A i \in 1..Len(t) :
        IsNa(t[i].operationtime) =>
            /\ IsNa(t[i].hour) /\ IsNa(t[i].weekday)
            /\ IsNa(t[i].month) /\ IsNa(t[i].date)
C5_AbsentTimeNoFeatures ==
    (script = "clean_dataset" /\ Ran("Deriver")) =>
        /\ NoPartialDerivation(df)
        /\ Written => NoPartialDerivation(out[1])

\* C5 witness: the derived columns exist for a table whose first row has an
\* unparseable operationtime and no derived value, and whose second row has both
C5_Witness ==
    /\ script = "clean_dataset" /\ Ran("Deriver") /\ Len(df) = 2
    /\ file[1].operationtime = BadText
    /\ IsNa(df[1].operationtime) /\ IsNa(df[1].hour) /\ IsNa(df[1].date)
    /\ ~IsNa(df[2].operationtime) /\ ~IsNa(df[2].hour)

\* t holds the rows of file f, one for one and in the same order
SameRows(t, f) ==
    /\ Len(t) = Len(f)
    /\ \A i \in 1..Len(f) : t[i].flightnumber = Val(f[i].flightnumber)

\* C6: in clean_dataset.py the DataFrame holds, after every stage, and the
\* writer is handed, as many rows as were loaded, in the same order; in
\* clean_airports_and_dates the row count is that of the file until
\* drop_duplicates runs, which alone may lower it.
C6_RowsKept ==
    /\ (script = "clean_dataset" /\ Ran("Loader")) =>
        /\ SameRows(df, file)
        /\ Written => SameRows(out[1], file)
    /\ (script = "clean_airports_dates" /\ Ran("Loader")) =>
        IF Ran("Deduplicator") THEN Len(df) <= Len(file)
        ELSE Len(df) = Len(file)

\* C6 witness: a table of the expected size whose first row lost both its
\* timestamp and its category has been written
C6_Witness ==
    /\ script = "clean_dataset" /\ Written
    /\ Len(out[1]) = ExpectedRows
    /\ file[1].flightnumber = 2
    /\ IsNa(out[1][1].operationtime) /\ IsNa(out[1][1].departureorarrival)

\* C7: the airport normalizer maps a present value to that value trimmed and
\* upper-cased and absent to absent, and never makes a present value absent;
\* in clean_airports_and_dates, once a column has been cleaned, none of its
\* values has surrounding whitespace or a lower-case letter, and until
\* drop_duplicates runs every row of the file is there, its airports present
\* if they were in the file (KRECHBA included).
CleanedColumn(t, c) == \A i \in 1..Len(t) : IsNa(t[i][c]) \/ IsCleanText(t[i][c].v)
NormalizedFrom(t, f, c) ==
    \A i \in 1..Len(f) :
        IF f[i][c] = <<>> THEN IsNa(t[i][c])
        ELSE ~IsNa(t[i][c]) /\ IsTrimmedUpperOf(t[i][c].v, f[i][c])
NormalizerRuns == Cardinality({k \in 1..Len(trace) : trace[k] = "Normalizer"})
C7_AirportNormalized ==
    /\ Returned("normalize_airport") =>
        IF IsNa(arg) THEN IsNa(ret)
        ELSE /\ ~IsNa(ret)
             /\ IsTrimmedUpperOf(ret.v, arg.v)
             /\ IsCleanText(ret.v)
    /\ (script = "clean_airports_dates" /\ NormalizerRuns >= 1) =>
        /\ CleanedColumn(df, "departureairport")
        /\ ~Ran("Deduplicator") => NormalizedFrom(df, file, "departureairport")
    /\ (script = "clean_airports_dates" /\ NormalizerRuns >= 2) =>
        /\ CleanedColumn(df, "arrivalairport")
        /\ ~Ran("Deduplicator") => NormalizedFrom(df, file, "arrivalairport")

\* C7 witness: a file with " alg" and "krechba" has been written with ALG and
\* KRECHBA
C7_Witness ==
    /\ script = "clean_airports_dates" /\ Written /\ Len(out[1]) = 2
    /\ file[1].departureairport = <<" ","a","l","g">>
    /\ file[1].arrivalairport = <<"o","r","y"," ">>
    /\ file[2].departureairport = <<"k","r","e","c","h","b","a">>
    /\ out[1][1].departureairport = Val(<<"A","L","G">>)
    /\ out[1][1].arrivalairport = Val(<<"O","R","Y">>)
    /\ out[1][2].departureairport = Val(KRECHBA)

StageRank(s) ==
    CASE s = "Loader" -> 1 [] s = "Normalizer" -> 2 [] s = "Parser" -> 3
      [] s = "Deriver" -> 4 [] s = "Validator" -> 5 [] s = "Deduplicator" -> 6
      [] s = "Writer" -> 7
IsPrefix(p, s) == Len(p) <= Len(s) /\ \A k \in 1..Len(p) : p[k] = s[k]
IsScript == script \in {"clean_dataset", "clean_airports_dates"}

\* C8 as claimed: the stages of a run follow one another in the order Loader,
\* Normalizer, Parser, Deriver, Validator, Deduplicator, Writer: no stage runs
\* after a stage that comes later in this order, and the writer runs once, last.
C8_SevenStageOrder ==
    IsScript =>
        /\ \A i, j \in 1..Len(trace) :
            i < j => StageRank(trace[i]) <= StageRank(trace[j])
        /\ \A k \in 1..Len(trace) : trace[k] = "Writer" => k = Len(trace)

\* C8 as amended: each script runs its own stages once, in a fixed order, the
\* writer last: clean_dataset.py runs Loader, Parser, Deriver, Normalizer,
\* Validator, Writer (the Normalizer after the Parser and the Deriver), and
\* clean_airports_and_dates runs Loader, Normalizer (once for each airport
\* column), Parser, Deduplicator, Writer.
DsOrder == <<"Loader", "Parser", "Deriver", "Normalizer", "Validator", "Writer">>
AirOrder ==
    <<"Loader", "Normalizer", "Normalizer", "Parser", "Deduplicator", "Writer">>
C8_LinearPerScript ==
    /\ script = "clean_dataset" => IsPrefix(trace, DsOrder)
    /\ script = "clean_airports_dates" => IsPrefix(trace, AirOrder)
    /\ IsScript => (Written <=> Ran("Writer"))
    /\ (IsScript /\ pc = "done") => Ran("Writer")

\* C8 witness: clean_dataset.py has run its stages up to the allow-list, the
\* Normalizer after the Parser and the Deriver
C8_Witness ==
    /\ script = "clean_dataset" /\ pc = "validation"
    /\ trace = <<"Loader", "Parser", "Deriver", "Normalizer", "Validator">>

MissingColumn ==
    \/ script = "clean_dataset"
        /\ ~({"operationtime", "departureorarrival"} \subseteq cols)
    \/ script = "clean_airports_dates" /\ ~(AirCols \subseteq cols)
\* the run has not written and has not got, or will not get, to the writer:
\* it ends on an exception or on the return that follows the reported one
Stopped == ~Written /\ pc \notin {"save", "done"}

\* C9: a run whose file lacks a column the script uses, or whose row count is
\* not the expected one, or whose operationtime is not a datetime column, or
\* whose departureorarrival holds another value than ARRIVAL, DEPARTURE or
\* absent after the allow-list stage, ends with an error and never writes: a
\* table is written only from a DataFrame that passes every check.
C9_StructuralFailureStops ==
    IsScript =>
        /\ MissingColumn => Stopped
        /\ (script = "clean_dataset" /\ Ran("Loader") /\ Len(df) # ExpectedRows)
            => Stopped
        /\ (script = "clean_dataset" /\ Ran("Parser") /\ Len(df) = 0) => Stopped
        /\ (script = "clean_dataset" /\ Ran("Validator")
                /\ \E i \in 1..Len(df) :
                    df[i].departureorarrival \notin {NA, Val(ARRIVAL), Val(DEPARTURE)})
            => Stopped
        /\ Written => (script = "clean_dataset" => Len(out[1]) = ExpectedRows)

\* C9 witness: the row-count assert has stopped a run after the allow-list
\* stage, nothing written
C9_Witness ==
    /\ script = "clean_dataset" /\ pc = "error" /\ ~Written
    /\ Ran("Validator") /\ Len(df) > 0 /\ Len(df) # ExpectedRows

\* the number of days from 1970-01-01 to the date d
DaysFromCivil(d) ==
    LET y   == IF d.month <= 2 THEN d.year - 1 ELSE d.year
        era == y \div 400
        yoe == y - era * 400
        mp  == IF d.month > 2 THEN d.month - 3 ELSE d.month + 9
        doy == (153 * mp + 2) \div 5 + d.day - 1
        doe == yoe * 365 + yoe \div 4 - yoe \div 100 + doy
    IN  era * 146097 + doe - 719468
IsLeapYear(y) == y % 4 = 0 /\ (y % 100 # 0 \/ y % 400 = 0)
DaysInMonth(y, m) ==
    IF m = 2 THEN (IF IsLeapYear(y) THEN 29 ELSE 28)
    ELSE IF m \in {4, 6, 9, 11} THEN 30 ELSE 31
IsCalendarDate(d) ==
    /\ d.month \in 1..12
    /\ d.day \in 1..DaysInMonth(d.year, d.month)
\* the weekday of a date by its year, month and day alone
MonthShift == <<0, 3, 2, 5, 0, 3, 5, 1, 4, 6, 2, 4>>
SundayFirst == <<"Sunday", "Monday", "Tuesday", "Wednesday", "Thursday",
                 "Friday", "Saturday">>
WeekdayOfDate(d) ==
    LET y == IF d.month < 3 THEN d.year - 1 ELSE d.year
    IN  SundayFirst[((y + y \div 4 - y \div 100 + y \div 400
                        + MonthShift[d.month] + d.day) % 7) + 1]
\* the text "2024-12-05T14:30:00Z"
ZuluText ==
    TimeText("iso",
             DaysFromCivil([year |-> 2024, month |-> 12, day |-> 5]) * 1440
                + 14 * 60 + 30, 0)
\* the pairs of a field of the file and the row it has become
FieldsAndRows == {<<file[i].operationtime, df[i]>> : i \in 1..Len(df)}

\* C11: once the derived columns exist, a record whose operationtime is
\* present holds the UTC instant of its text (the written wall-clock time less
\* the written offset) and has all four derived features, taken from that
\* instant: date is the calendar date of the instant's UTC day, hour is the
\* hour within that day and lies in 0..23, weekday is the English name of the
\* date's weekday, month the English name of the date's month; the text
\* "2024-12-05T14:30:00Z" gives hour 14, Thursday, December, 2024-12-05.
C11_FeaturesFromUtcInstant ==
    (script = "clean_dataset" /\ Ran("Deriver")) =>
        /\ Len(df) = Len(file)
        /\ \A p \in FieldsAndRows :
            LET text == p[1]
                r == p[2]
            IN  ~IsNa(r.operationtime) =>
                    /\ text.fmt \in {"iso", "other"}
                    /\ r.operationtime.v = text.local - text.off
                    /\ ~IsNa(r.hour) /\ ~IsNa(r.weekday)
                    /\ ~IsNa(r.month) /\ ~IsNa(r.date)
                    /\ IsCalendarDate(r.date.v)
                    /\ DaysFromCivil(r.date.v) * 1440 <= r.operationtime.v
                    /\ r.operationtime.v < (DaysFromCivil(r.date.v) + 1) * 1440
                    /\ r.hour.v \in 0..23
                    /\ r.hour.v * 60 <=
                            r.operationtime.v - DaysFromCivil(r.date.v) * 1440
                    /\ r.operationtime.v - DaysFromCivil(r.date.v) * 1440
                            < (r.hour.v + 1) * 60
                    /\ r.weekday.v = WeekdayOfDate(r.date.v)
                    /\ r.month.v = MonthNames[r.date.v.month]
                    /\ text = ZuluText =>
                        /\ r.hour.v = 14 /\ r.weekday.v = "Thursday"
                        /\ r.month.v = "December"
                        /\ r.date.v = [year |-> 2024, month |-> 12, day |-> 5]

\* C11 witness: the derived columns exist for a table whose first row is
\* "2024-12-05T14:30:00Z" with hour 14 on Thursday 2024-12-05, and whose second
\* row is a 23:30 of 2024-12-31 written two hours behind UTC with hour 1 on
\* Wednesday 2025-01-01
C11_Witness ==
    /\ script = "clean_dataset" /\ Ran("Deriver") /\ Len(df) = 2
    /\ file[1].operationtime = ZuluText
    /\ df[1].hour = Val(14) /\ df[1].weekday = Val("Thursday")
    /\ df[1].month = Val("December")
    /\ df[1].date = Val([year |-> 2024, month |-> 12, day |-> 5])
    /\ file[2].operationtime.off = -120
    /\ df[2].hour = Val(1) /\ df[2].weekday = Val("Wednesday")
    /\ df[2].month = Val("January")
    /\ df[2].date = Val([year |-> 2025, month |-> 1, day |-> 1])

\* the letters c and d are the same but for their case
SameLetter(c, d) ==
    c = d \/ \E n \in 1..26 : {c, d} = {LowerCase[n], UpperCase[n]}
\* raw without its leading and trailing whitespace
Cores(raw) ==
    {SubSeq(raw, p[1] + 1, p[2]) :
        p \in {q \in (0..Len(raw)) \X (0..Len(raw)) :
                /\ q[1] <= q[2]
                /\ \A k \in 1..q[1] : raw[k] \in Whitespace
                /\ \A k \in (q[2] + 1)..Len(raw) : raw[k] \in Whitespace
                /\ q[1] < q[2] => (raw[q[1] + 1] \notin Whitespace
                                    /\ raw[q[2]] \notin Whitespace)}}
\* two airport fields of the file differ at most in case and in surrounding
\* whitespace; an empty field is like an empty field only
SameCode(x, y) ==
    IF x = <<>> \/ y = <<>> THEN x = y
    ELSE \E a \in Cores(x), b \in Cores(y) :
            /\ Len(a) = Len(b)
            /\ \A k \in 1..Len(a) : SameLetter(a[k], b[k])
\* two origindate fields of the file name the same day, whatever their format
SameDay(x, y) ==
    IF x.fmt = "empty" \/ y.fmt = "empty" THEN x.fmt = y.fmt
    ELSE x.fmt \in {"ymd", "mdy"} /\ y.fmt \in {"ymd", "mdy"} /\ x.day = y.day
\* two rows of the file differ at most in the case and surrounding whitespace
\* of their airports and in the format of their origindate
SameAfterCleaning(a, b) ==
    /\ a.airline = b.airline
    /\ SameCode(a.departureairport, b.departureairport)
    /\ SameCode(a.arrivalairport, b.arrivalairport)
    /\ SameDay(a.origindate, b.origindate)
\* r is the row f of the file, cleaned
CleanedFrom(r, f) ==
    /\ r.airline = ReadCsvField(f.airline)
    /\ \A c \in {"departureairport", "arrivalairport"} :
        IF f[c] = <<>> THEN IsNa(r[c])
        ELSE ~IsNa(r[c]) /\ IsTrimmedUpperOf(r[c].v, f[c])
    /\ IF f.origindate.fmt = "empty" THEN IsNa(r.origindate)
       ELSE r.origindate = Val(DateText("ymd", f.origindate.day))
\* the rows of the file like no earlier row once cleaned, and the rows of the
\* file equal to an earlier row as they are read
FirstAfterCleaning ==
    {i \in 1..Len(file) : \A j \in 1..(i - 1) : ~SameAfterCleaning(file[j], file[i])}
RawDuplicates == {i \in 1..Len(file) : \E j \in 1..(i - 1) : file[j] = file[i]}

====
